---- MODULE Spec2Model ----
(***************************************************************************)
(* Pending-escrow creation and reconciliation of the TRON escrow bots.     *)
(*                                                                         *)
(* Modelled programs:                                                      *)
(*   bots/unified_telegram_bot.py        UnifiedCryptoBot                  *)
(*   scripts/sync_pending_transactions.py                                  *)
(*   scripts/update_database_schema.py                                     *)
(*   scripts/telegram_escrow_bot_advanced.py  AdvancedEscrowBot (create)   *)
(*   scripts/tron_escrow_usdt_client.py  the ledger reader                 *)
(*                                                                         *)
(* Strings are modelled by the attributes the code inspects: the first     *)
(* character, the length, whether the remaining characters are base58,     *)
(* the letters of the body, and whether the body contains upper-case       *)
(* letters (what str.lower() removes).                                     *)
(***************************************************************************)
EXTENDS Integers, Sequences, FiniteSets, TLC

(* ------------------------------ bounds --------------------------------- *)
MaxUUID == 2          \* uuid4() values drawn in the create-flow specifications
MaxFlowLedger == 1    \* ledger records in the create-flow specification
MaxLedger == 11       \* ledger records in the reconciliation specifications
MaxMatching == 2      \* ledger records addressed to the pending recipient
MaxFaults == 1        \* ledger records whose lookup fails at the same time
MaxClock == 86402     \* the last instant at which the clock is read, in seconds
MaxOps == 4           \* UUIDMapping calls that change the mapping, per behaviour

(* -------------------------- program constants -------------------------- *)
ADDR_LEN == 34
MAX_AMOUNT == 10000
ADV_MIN_AMOUNT == 5
ADV_MAX_AMOUNT == 1000000
LOOKBACK == 10
HOUR == 3600
MAX_AGE_HOURS == 24
WAIT_TIMEOUT == 30

Users == {"u1", "u2"}

(* ------------------------------ strings -------------------------------- *)
Str(first, len, body, upper, b58) ==
    [first |-> first, len |-> len, body |-> body, upper |-> upper, b58 |-> b58]

EMPTY == Str("", 0, "", FALSE, TRUE)

\* str.lower(): the first character and the body lose their upper case
lower(s) ==
    [s EXCEPT !.first = IF @ = "T" THEN "t" ELSE IF @ = "X" THEN "x" ELSE @,
              !.upper = FALSE]

AddrA == Str("T", ADDR_LEN, "a", TRUE, TRUE)       \* an address as the ledger prints it
AddrAlow == Str("T", ADDR_LEN, "a", FALSE, TRUE)   \* same letters, body typed in lower case
AddrOther == Str("T", ADDR_LEN, "f", TRUE, TRUE)   \* somebody else's address
AddrBadPrefix == Str("X", ADDR_LEN, "a", TRUE, TRUE)
AddrShort == Str("T", ADDR_LEN - 1, "a", TRUE, TRUE)
AddrNotB58 == Str("T", ADDR_LEN, "a", TRUE, FALSE)

RecipientInputs == {AddrA, AddrAlow, AddrBadPrefix, AddrShort}
AdvRecipientInputs == RecipientInputs \cup {AddrNotB58}

(* --------------------------- amount texts ------------------------------ *)
\* what the user types at the amount step; float(text) raises ValueError on
\* "text", yields NaN on "nan" and the number otherwise
Num(n) == [kind |-> "num", val |-> n]
NotANumber == [kind |-> "text", val |-> 0]
NaN == [kind |-> "nan", val |-> 0]
AmountInputs == {NotANumber, NaN, Num(0), Num(ADV_MIN_AMOUNT), Num(ADV_MIN_AMOUNT + 1),
                 Num(MAX_AMOUNT + 1)}
AdvAmountInputs == AmountInputs \cup {Num(ADV_MAX_AMOUNT + 1)}

\* float(text) for a text that float() accepts; a float is a number or NaN
float(text) == [nan |-> text.kind = "nan", val |-> text.val]
\* float comparisons: every comparison with NaN is False
FloatLe(f, n) == ~ f.nan /\ f.val <= n
FloatGt(f, n) == ~ f.nan /\ f.val > n

(* ------------------------------- state --------------------------------- *)
VARIABLES
    user_states,           \* UnifiedCryptoBot.user_states
    pending_transactions,  \* UnifiedCryptoBot.pending_transactions (in memory)
    pending_file,          \* pending_transactions.json, the one file the bot writes and the sync script rewrites
    transactions,          \* rows of table transactions in unified_escrow.db
    schema,                \* how the uuid column of table transactions exists
    ledger,                \* records of the escrow contract, index i at ledger[i+1]
    uuids_issued,          \* number of uuid4() values drawn so far
    adv_user_data,         \* AdvancedEscrowBot: context.user_data per user
    adv_pending,           \* AdvancedEscrowBot.pending_transactions
    adv_pending_file,      \* the advanced bot's pending_transactions.json
    linked,                \* history: UUID -> blockchain ID of each row check_tx_status_handler created
    calls,                 \* get_transaction(i) calls issued by the last operation
    last,                  \* the last operation, its input and its reply
    handlers,              \* check_tx_status_handler coroutines in flight, by execution
    faults,                \* what of the ledger node fails at present
    adv_transactions,      \* AdvancedEscrowBot: rows of table transactions in escrow.db
    users_data,            \* AdvancedEscrowBot.users_data (in memory)
    users_data_file,       \* the advanced bot's users_data.json
    clock,                 \* the wall clock, in seconds
    client,                \* a call of create_transaction_with_auto_approve in progress
    mapping_file,          \* uuid_blockchain_mapping.json: absent or its content
    mapping_ops            \* history: the UUIDMapping calls made so far, in order

vars == <<user_states, pending_transactions, pending_file, transactions, schema,
          ledger, uuids_issued, adv_user_data, adv_pending, adv_pending_file,
          linked, calls, last, handlers, faults, adv_transactions, users_data,
          users_data_file, clock, client, mapping_file, mapping_ops>>

unifiedVars == <<user_states, pending_transactions, pending_file, transactions, linked>>
advVars == <<adv_user_data, adv_pending, adv_pending_file>>
runVars == <<handlers, faults>>
toolVars == <<client, mapping_file, mapping_ops>>
storeVars == <<adv_transactions, users_data, users_data_file, clock, toolVars>>

NoMap == [x \in {} |-> 0]      \* the empty dict {}

\* dict.get(key, default)
Get(d, key, default) == IF key \in DOMAIN d THEN d[key] ELSE default

\* d with key set to value (d[key] = value)
Put(d, key, value) == [k \in DOMAIN d \cup {key} |-> IF k = key THEN value ELSE d[k]]

\* del d[key]
Del(d, key) == [k \in DOMAIN d \ {key} |-> d[k]]

NoFound == NoMap

\* the executions of check_tx_status_handler that may be in flight together
Execs == {"e1", "e2"}

\* no execution has started
NoHandlers == [e \in Execs |-> [pc |-> "idle", user |-> "-", uuid |-> 0, pending |-> FALSE,
                                outcome |-> "-", found |-> NoFound, total |-> 0]]

Reply(op, user, uuid, outcome, found, input) ==
    [op |-> op, user |-> user, uuid |-> uuid, outcome |-> outcome,
     found |-> found, input |-> input]

(* ---------------------- pending_transactions.json ----------------------- *)
\* mutant: the save keeps only entries the file still holds
save_pending_transactions_Merge(file, memory) ==
    [k \in DOMAIN file \cap DOMAIN memory |-> memory[k]]

\* UnifiedCryptoBot.save_pending_transactions: the file is opened with 'w' and
\* the in-memory map dumped into it; what the file held is not read
save_pending_transactions(file, memory) == memory

(* --------------------------- uuid.uuid4() ------------------------------ *)
\* uuid4() returns a value never returned before; values are numbered in the
\* order they are drawn
uuid4 == {uuids_issued + 1}

(* --------------------------- create flow ------------------------------- *)
create_escrow_handler(user_id) ==
    /\ uuids_issued < MaxUUID
    /\ \E transaction_id \in uuid4 :
        /\ uuids_issued' = uuids_issued + 1
        /\ user_states' = Put(user_states, user_id,
                [state |-> "waiting_recipient",
                 transaction_id |-> transaction_id,
                 data |-> NoMap])
        /\ pending_transactions' = Put(pending_transactions, transaction_id,
                [user_id |-> user_id, status |-> "creating", data |-> NoMap])
        /\ pending_file' = save_pending_transactions(pending_file, pending_transactions')
        /\ last' = Reply("create_escrow", user_id, transaction_id, "prompt_recipient",
                         NoFound, EMPTY)
    /\ calls' = <<>>
    /\ UNCHANGED <<transactions, schema, ledger, linked>>
    /\ UNCHANGED advVars
    /\ UNCHANGED runVars
    /\ UNCHANGED storeVars

\* mutant: the length of the address is not tested
ValidRecipient_PrefixOnly(recipient_address) ==
    ~ (recipient_address.first # "T")

\* the format test of handle_recipient_input
ValidRecipient(recipient_address) ==
    ~ (recipient_address.first # "T" \/ recipient_address.len # ADDR_LEN)

handle_recipient_input(user_id, recipient_address) ==
    /\ user_id \in DOMAIN user_states
    /\ user_states[user_id].state = "waiting_recipient"
    /\ IF ~ ValidRecipient(recipient_address)
       THEN /\ last' = Reply("recipient_input", user_id, user_states[user_id].transaction_id,
                             "invalid_address", NoFound, recipient_address)
            /\ UNCHANGED user_states
       ELSE /\ user_states' = [user_states EXCEPT
                    ![user_id].data = Put(@, "recipient", recipient_address),
                    ![user_id].state = "waiting_amount"]
            /\ last' = Reply("recipient_input", user_id, user_states[user_id].transaction_id,
                             "prompt_amount", NoFound, recipient_address)
    /\ calls' = <<>>
    /\ UNCHANGED <<pending_transactions, pending_file, transactions, schema, ledger,
                   uuids_issued, linked>>
    /\ UNCHANGED advVars
    /\ UNCHANGED runVars
    /\ UNCHANGED storeVars

\* amount = float(amount_text); if amount <= 0 or amount > 10000: raise ValueError
AmountRejected(amount_text) ==
    \/ amount_text.kind = "text"
    \/ FloatLe(float(amount_text), 0)
    \/ FloatGt(float(amount_text), MAX_AMOUNT)

\* mutant: the update stores the data and leaves the status at 'creating'
AmountUpdate_KeepStatus(entry, recipient, amount) ==
    [entry EXCEPT !.data = [recipient |-> recipient, amount |-> amount]]

\* self.pending_transactions[transaction_id].update({'status': ..., 'data': ...})
AmountUpdate(entry, recipient, amount) ==
    [entry EXCEPT !.status = "pending_signature",
                  !.data = [recipient |-> recipient, amount |-> amount]]

handle_amount_input(user_id, amount_text) ==
    /\ user_id \in DOMAIN user_states
    /\ user_states[user_id].state = "waiting_amount"
    /\ LET transaction_id == user_states[user_id].transaction_id
           data == user_states[user_id].data
       IN  IF AmountRejected(amount_text)
           THEN /\ last' = Reply("amount_input", user_id, transaction_id,
                                 "invalid_amount", NoFound, amount_text)
                /\ UNCHANGED <<user_states, pending_transactions, pending_file>>
           ELSE IF float(amount_text).nan
           THEN \* int(amount * 1000000) raises ValueError outside the try block
                /\ last' = Reply("amount_input", user_id, transaction_id,
                                 "exception", NoFound, amount_text)
                /\ UNCHANGED <<user_states, pending_transactions, pending_file>>
           ELSE /\ IF transaction_id \in DOMAIN pending_transactions
                   THEN /\ pending_transactions' =
                              [pending_transactions EXCEPT
                                 ![transaction_id] =
                                     AmountUpdate(@, data.recipient, float(amount_text))]
                        /\ pending_file' = save_pending_transactions(pending_file, pending_transactions')
                   ELSE UNCHANGED <<pending_transactions, pending_file>>
                /\ user_states' = Del(user_states, user_id)
                /\ last' = Reply("amount_input", user_id, transaction_id,
                                 "payload", NoFound, amount_text)
    /\ calls' = <<>>
    /\ UNCHANGED <<transactions, schema, ledger, uuids_issued, linked>>
    /\ UNCHANGED advVars
    /\ UNCHANGED runVars
    /\ UNCHANGED storeVars


\* callback 'escrow_menu': the Cancel button and every "back to escrow" button
escrow_menu_callback(user_id) ==
    /\ user_states' = IF user_id \in DOMAIN user_states
                      THEN Del(user_states, user_id)
                      ELSE user_states
    /\ last' = Reply("escrow_menu", user_id, 0, "menu", NoFound, EMPTY)
    /\ calls' = <<>>
    /\ UNCHANGED <<pending_transactions, pending_file, transactions, schema, ledger,
                   uuids_issued, linked>>
    /\ UNCHANGED advVars
    /\ UNCHANGED runVars
    /\ UNCHANGED storeVars

confirm_escrow_handler(user_id) ==
    /\ user_states' = Put(user_states, user_id,
            [state |-> "waiting_transaction_id", data |-> NoMap])
    /\ last' = Reply("confirm_escrow", user_id, 0, "prompt_transaction_id", NoFound, EMPTY)
    /\ calls' = <<>>
    /\ UNCHANGED <<pending_transactions, pending_file, transactions, schema, ledger,
                   uuids_issued, linked>>
    /\ UNCHANGED advVars
    /\ UNCHANGED runVars
    /\ UNCHANGED storeVars

(* ------------------------------ ledger --------------------------------- *)
\* the ledger node answers every call
NoFaults == [count |-> FALSE, lookups |-> {}]

\* mutant: a failing count is reported as an empty ledger
get_transaction_count_Zero == IF faults.count THEN {0} ELSE {Len(ledger)}

\* TronEscrowUSDTClient.get_transaction_count: the count, or None (the empty
\* set) when the contract call fails
get_transaction_count == IF faults.count THEN {} ELSE {Len(ledger)}

\* TronEscrowUSDTClient.get_transaction: the record as a dict, or None (the
\* empty set) when the contract call fails
get_transaction(transaction_id) ==
    IF transaction_id \in 0 .. (Len(ledger) - 1) /\ transaction_id \notin faults.lookups
    THEN {[recipient |-> ledger[transaction_id + 1].recipient,
           state |-> ledger[transaction_id + 1].state,
           amount_usdt |-> ledger[transaction_id + 1].amount_usdt]}
    ELSE {}

Max(a, b) == IF a >= b THEN a ELSE b

\* records other than plain traffic to somebody else
Matching(l) == {i \in 1 .. Len(l) : l[i].recipient # AddrOther}

\* the contract accepts a new escrow of amount_usdt (createTransaction of
\* some wallet)
LedgerCreateFor(limit, recipient, amount_usdt) ==
    /\ Len(ledger) < limit
    /\ recipient # AddrOther => Cardinality(Matching(ledger)) < MaxMatching
    /\ ledger' = Append(ledger, [recipient |-> recipient, state |-> "AWAITING_DELIVERY",
                                 amount_usdt |-> amount_usdt])
    /\ last' = Reply("ledger_create", "-", 0, "ok", NoFound, recipient)
    /\ calls' = <<>>
    /\ UNCHANGED <<unifiedVars, schema, uuids_issued>>
    /\ UNCHANGED advVars
    /\ UNCHANGED runVars
    /\ UNCHANGED storeVars

\* a new escrow of the amount the pending entries ask for
LedgerCreate(limit, recipient) == LedgerCreateFor(limit, recipient, ADV_MIN_AMOUNT + 1)

\* the contract completes an escrow (confirmDelivery); the state
\* of a record addressed to somebody else is read by no operation below
LedgerComplete(i) ==
    /\ i \in Matching(ledger)
    /\ ledger[i].state = "AWAITING_DELIVERY"
    /\ ledger' = [ledger EXCEPT ![i].state = "COMPLETE"]
    /\ last' = Reply("ledger_complete", "-", 0, "ok", NoFound, EMPTY)
    /\ calls' = <<>>
    /\ UNCHANGED <<unifiedVars, schema, uuids_issued>>
    /\ UNCHANGED advVars
    /\ UNCHANGED runVars
    /\ UNCHANGED storeVars

(* --------------------------- ledger failures -------------------------- *)
\* getTransaction(i) starts to raise: get_transaction prints and returns None
LedgerLookupFails(i) ==
    /\ i \in 0 .. (Len(ledger) - 1)
    /\ i \notin faults.lookups
    /\ Cardinality(faults.lookups) < MaxFaults
    /\ faults' = [faults EXCEPT !.lookups = @ \cup {i}]
    /\ last' = Reply("ledger_lookup_fails", "-", 0, "ok", NoFound, EMPTY)
    /\ calls' = <<>>
    /\ UNCHANGED <<unifiedVars, schema, ledger, uuids_issued, handlers>>
    /\ UNCHANGED advVars
    /\ UNCHANGED storeVars

\* transactionCount() starts to raise: get_transaction_count prints and
\* returns None
LedgerCountFails ==
    /\ ~ faults.count
    /\ faults' = [faults EXCEPT !.count = TRUE]
    /\ last' = Reply("ledger_count_fails", "-", 0, "ok", NoFound, EMPTY)
    /\ calls' = <<>>
    /\ UNCHANGED <<unifiedVars, schema, ledger, uuids_issued, handlers>>
    /\ UNCHANGED advVars
    /\ UNCHANGED storeVars

\* the node answers again
LedgerRecovers ==
    /\ faults # NoFaults
    /\ faults' = NoFaults
    /\ last' = Reply("ledger_recovers", "-", 0, "ok", NoFound, EMPTY)
    /\ calls' = <<>>
    /\ UNCHANGED <<unifiedVars, schema, ledger, uuids_issued, handlers>>
    /\ UNCHANGED advVars
    /\ UNCHANGED storeVars

(* ----------------------- table transactions ---------------------------- *)
Row(tx_id, user_id, amount_usdt, recipient, status, role, uuid) ==
    [id |-> tx_id, user_id |-> user_id, amount_usdt |-> amount_usdt,
     recipient |-> recipient, status |-> status, role |-> role, uuid |-> uuid]

\* INSERT OR REPLACE INTO transactions: rows that conflict with the new row on
\* the primary key id, or on uuid where the column is declared UNIQUE, are
\* deleted first.  Without a uuid column the statement raises.
InsertRaises == schema = "nocolumn"

InsertOrReplace(rows, row) ==
    LET conflicts == {r \in rows :
                        \/ r.id = row.id
                        \/ schema = "unique" /\ r.uuid = row.uuid}
    IN  (rows \ conflicts) \cup {row}

\* UnifiedCryptoBot.db_add_transaction: any exception is logged and dropped
db_add_transaction(rows, row) ==
    IF InsertRaises THEN rows ELSE InsertOrReplace(rows, row)

\* mutant: the lookup by uuid never finds a row
db_get_transaction_by_uuid_Miss(uuid) == {}

\* UnifiedCryptoBot.db_get_transaction_by_uuid: fetchone() of the rows with this
\* uuid (the one with the lowest rowid), None when there is none or the query
\* raises
db_get_transaction_by_uuid(uuid) ==
    IF schema = "nocolumn" THEN {}
    ELSE LET hits == {r \in transactions : r.uuid = uuid}
         IN  {r \in hits : \A q \in hits : r.id <= q.id}

(* --------------------------- reconciliation ---------------------------- *)
\* mutant: the state of the record is not tested
BotMatches_AnyState(tx_info, recipient) ==
    lower(tx_info.recipient) = lower(recipient)

\* mutant: the recipient of the record is not tested
BotMatches_AnyRecipient(tx_info, recipient) ==
    tx_info.state = "AWAITING_DELIVERY"

\* the match test of check_tx_status_handler
BotMatches(tx_info, recipient) ==
    /\ lower(tx_info.recipient) = lower(recipient)
    /\ tx_info.state = "AWAITING_DELIVERY"

\* first index after the end of range(total - 1, max(-1, total - 10), -1)
BotScanStop(total_transactions) == Max(-1, total_transactions - LOOKBACK)

\* mutant: the loop has no break, so the oldest match of the range is kept
RECURSIVE BotScan_NoBreak(_, _, _, _)
BotScan_NoBreak(blockchain_id, stop, recipient, log) ==
    IF blockchain_id <= stop
    THEN [found |-> {}, calls |-> log]
    ELSE LET tx_info == get_transaction(blockchain_id)
             rest == BotScan_NoBreak(blockchain_id - 1, stop, recipient,
                                     Append(log, blockchain_id))
         IN  IF rest.found = {}
                /\ \E t \in tx_info : lower(t.recipient) = lower(recipient)
                                        /\ t.state = "AWAITING_DELIVERY"
             THEN [found |-> {blockchain_id}, calls |-> rest.calls]
             ELSE rest

\* the for loop of check_tx_status_handler from blockchain_id down to stop
\* (exclusive): the index found (or none) and the lookups made
RECURSIVE BotScan(_, _, _, _)
BotScan(blockchain_id, stop, recipient, log) ==
    IF blockchain_id <= stop
    THEN [found |-> {}, calls |-> log]
    ELSE LET tx_info == get_transaction(blockchain_id)
             log2 == Append(log, blockchain_id)
         IN  IF tx_info = {}
             THEN BotScan(blockchain_id - 1, stop, recipient, log2)
             ELSE IF \E t \in tx_info : BotMatches(t, recipient)
                  THEN [found |-> {blockchain_id}, calls |-> log2]
                  ELSE BotScan(blockchain_id - 1, stop, recipient, log2)

\* check_tx_status_handler between its two awaits (query.answer() and
\* query.edit_message_text): no await in between, so it runs as one step
check_tx_status_body(user_id, tx_uuid) ==
    LET db_transaction == db_get_transaction_by_uuid(tx_uuid) IN
    /\ tx_uuid \in 1 .. uuids_issued
    /\ IF db_transaction # {}
       THEN \* fast path: the UUID is already linked to a blockchain ID
            /\ \E r \in db_transaction :
                 last' = Reply("check_tx_status", user_id, tx_uuid, "confirmed",
                               Put(NoFound, tx_uuid, [id |-> r.id, recipient |-> r.recipient,
                                                      amount |-> r.amount_usdt]), EMPTY)
            /\ calls' = <<>>
            /\ UNCHANGED <<pending_transactions, pending_file, transactions, linked>>
       ELSE IF tx_uuid \in DOMAIN pending_transactions /\ get_transaction_count = {}
       THEN \* total_transactions is None: range() raises, the outer except replies
            /\ last' = Reply("check_tx_status", user_id, tx_uuid, "error", NoFound, EMPTY)
            /\ calls' = <<>>
            /\ UNCHANGED <<pending_transactions, pending_file, transactions, linked>>
       ELSE IF tx_uuid \in DOMAIN pending_transactions
       THEN LET pending_data == pending_transactions[tx_uuid]
                amount == Get(pending_data.data, "amount", float(Num(0)))
                recipient == Get(pending_data.data, "recipient", EMPTY)
                total_transactions == CHOOSE n \in get_transaction_count : TRUE
                scan == BotScan(total_transactions - 1, BotScanStop(total_transactions),
                                recipient, <<>>)
            IN  /\ calls' = scan.calls
                /\ IF scan.found # {}
                   THEN \E found_blockchain_id \in scan.found :
                        /\ transactions' = db_add_transaction(transactions,
                               Row(found_blockchain_id, user_id, amount, recipient,
                                   "AWAITING_DELIVERY", "creator", tx_uuid))
                        /\ pending_transactions' = Del(pending_transactions, tx_uuid)
                        /\ pending_file' = save_pending_transactions(pending_file, pending_transactions')
                        /\ linked' = IF InsertRaises THEN linked
                                      ELSE Put(linked, tx_uuid, found_blockchain_id)
                        /\ last' = Reply("check_tx_status", user_id, tx_uuid, "found",
                               Put(NoFound, tx_uuid, [id |-> found_blockchain_id,
                                                      recipient |-> recipient,
                                                      amount |-> amount]), EMPTY)
                   ELSE /\ last' = Reply("check_tx_status", user_id, tx_uuid,
                                         "not_yet_found", NoFound, EMPTY)
                        /\ UNCHANGED <<pending_transactions, pending_file, transactions,
                                       linked>>
       ELSE /\ last' = Reply("check_tx_status", user_id, tx_uuid, "uuid_not_found",
                             NoFound, EMPTY)
            /\ calls' = <<>>
            /\ UNCHANGED <<pending_transactions, pending_file, transactions, linked>>
    /\ UNCHANGED <<user_states, schema, ledger, uuids_issued>>
    /\ UNCHANGED advVars
    /\ UNCHANGED faults
    /\ UNCHANGED storeVars

\* the handler run from its first line to its last with no other coroutine
\* scheduled at its awaits
check_tx_status_handler(user_id, tx_uuid) ==
    /\ check_tx_status_body(user_id, tx_uuid)
    /\ UNCHANGED handlers

(* ------------- check_tx_status_handler as a coroutine ------------------ *)
\* the callback query arrives and the coroutine runs to await query.answer();
\* pending notes whether the UUID is in the pending store at that moment
check_tx_status_answer(e, user_id, tx_uuid) ==
    /\ handlers[e].pc = "idle"
    /\ tx_uuid \in 1 .. uuids_issued
    /\ handlers' = [handlers EXCEPT ![e] =
            [pc |-> "answered", user |-> user_id, uuid |-> tx_uuid,
             pending |-> tx_uuid \in DOMAIN pending_transactions,
             outcome |-> "-", found |-> NoFound, total |-> 0]]
    /\ last' = Reply("check_tx_status_answer", user_id, tx_uuid, "answered", NoFound, EMPTY)
    /\ calls' = <<>>
    /\ UNCHANGED <<unifiedVars, schema, ledger, uuids_issued, faults>>
    /\ UNCHANGED advVars
    /\ UNCHANGED storeVars

\* the coroutine is resumed and runs to await query.edit_message_text(...);
\* total notes the length of the ledger it read
check_tx_status_run(e) ==
    /\ handlers[e].pc = "answered"
    /\ check_tx_status_body(handlers[e].user, handlers[e].uuid)
    /\ handlers' = [handlers EXCEPT ![e].pc = "replying",
                                    ![e].outcome = last'.outcome,
                                    ![e].found = last'.found,
                                    ![e].total = Len(ledger)]

\* the message is edited and the coroutine ends
check_tx_status_reply(e) ==
    /\ handlers[e].pc = "replying"
    /\ handlers' = [handlers EXCEPT ![e].pc = "done"]
    /\ last' = Reply("check_tx_status_reply", handlers[e].user, handlers[e].uuid,
                     handlers[e].outcome, handlers[e].found, EMPTY)
    /\ calls' = <<>>
    /\ UNCHANGED <<unifiedVars, schema, ledger, uuids_issued, faults>>
    /\ UNCHANGED advVars
    /\ UNCHANGED storeVars

(* ------------------- sync_pending_transactions.py ---------------------- *)
\* the match test of sync_pending_transactions
SyncMatches(tx_info, recipient, blockchain_id, total_transactions) ==
    /\ lower(tx_info.recipient) = lower(recipient)
    /\ tx_info.state = "AWAITING_DELIVERY"
    /\ blockchain_id >= total_transactions - LOOKBACK

\* the inner for loop over range(total_transactions - 1, -1, -1)
RECURSIVE SyncScan(_, _, _, _)
SyncScan(blockchain_id, total_transactions, recipient, log) ==
    IF blockchain_id <= -1
    THEN [found |-> {}, calls |-> log]
    ELSE LET tx_info == get_transaction(blockchain_id)
             log2 == Append(log, blockchain_id)
         IN  IF tx_info = {}
             THEN SyncScan(blockchain_id - 1, total_transactions, recipient, log2)
             ELSE IF \E t \in tx_info :
                        SyncMatches(t, recipient, blockchain_id, total_transactions)
                  THEN [found |-> {blockchain_id}, calls |-> log2]
                  ELSE SyncScan(blockchain_id - 1, total_transactions, recipient, log2)

\* the outer for loop over list(pending_transactions.items()), keys in the
\* order of the file, which is the order in which the UUIDs were drawn;
\* st = [rows, pending, calls, found]
RECURSIVE SyncLoop(_, _, _)
SyncLoop(uuid, total_transactions, st) ==
    IF uuid > uuids_issued THEN st
    ELSE IF uuid \notin DOMAIN pending_file
    THEN SyncLoop(uuid + 1, total_transactions, st)
    ELSE LET tx_data == pending_file[uuid]
             user_id == tx_data.user_id
             amount == Get(tx_data.data, "amount", float(Num(0)))
             recipient == Get(tx_data.data, "recipient", EMPTY)
             scan == SyncScan(total_transactions - 1, total_transactions, recipient, <<>>)
             st2 == [st EXCEPT !.calls = @ \o scan.calls]
         IN  IF scan.found # {} /\ ~ InsertRaises
             THEN LET found_blockchain_id == CHOOSE i \in scan.found : TRUE
                  IN  SyncLoop(uuid + 1, total_transactions,
                        [st2 EXCEPT
                           !.rows = InsertOrReplace(@,
                                Row(found_blockchain_id, user_id, amount, recipient,
                                    "AWAITING_DELIVERY", "creator", uuid)),
                           !.pending = Del(@, uuid),
                           !.found = Put(@, uuid, [id |-> found_blockchain_id,
                                                   recipient |-> recipient,
                                                   amount |-> amount])])
             ELSE SyncLoop(uuid + 1, total_transactions, st2)

sync_pending_transactions ==
    /\ IF DOMAIN pending_file = {}
       THEN /\ last' = Reply("sync", "-", 0, "nothing_pending", NoFound, EMPTY)
            /\ calls' = <<>>
            /\ UNCHANGED <<pending_file, transactions>>
       ELSE IF get_transaction_count = {}
       THEN \* total_transactions is None: range() raises, the outer except prints
            /\ last' = Reply("sync", "-", 0, "error", NoFound, EMPTY)
            /\ calls' = <<>>
            /\ UNCHANGED <<pending_file, transactions>>
       ELSE LET st == SyncLoop(1, CHOOSE n \in get_transaction_count : TRUE,
                        [rows |-> transactions, pending |-> pending_file,
                         calls |-> <<>>, found |-> NoFound])
            IN  /\ transactions' = st.rows
                /\ pending_file' = st.pending
                /\ calls' = st.calls
                /\ last' = Reply("sync", "-", 0, "synced", st.found, EMPTY)
    /\ UNCHANGED <<user_states, pending_transactions, schema, ledger, uuids_issued, linked>>
    /\ UNCHANGED advVars
    /\ UNCHANGED runVars
    /\ UNCHANGED storeVars

(* --------------------- update_database_schema.py ----------------------- *)
\* ALTER TABLE transactions ADD COLUMN uuid TEXT, when the column is missing
update_database_schema ==
    /\ schema' = IF schema = "nocolumn" THEN "plain" ELSE schema
    /\ last' = Reply("update_database_schema", "-", 0, "ok", NoFound, EMPTY)
    /\ calls' = <<>>
    /\ UNCHANGED <<unifiedVars, ledger, uuids_issued>>
    /\ UNCHANGED advVars
    /\ UNCHANGED runVars
    /\ UNCHANGED storeVars

(* -------------------------- confirm delivery --------------------------- *)
\* what the user types when asked for the deal to confirm: a UUID, a number
\* (Num) or something else (NotANumber)
Uuid(u) == [kind |-> "uuid", val |-> u]

\* mutant: any record found may be confirmed
ConfirmAllowed_AnyState(tx_info) == tx_info # {}

\* the pre-flight test: the lookup returned a record and its state is
\* AWAITING_DELIVERY
ConfirmAllowed(tx_info) ==
    tx_info # {} /\ \A t \in tx_info : t.state = "AWAITING_DELIVERY"

\* UnifiedCryptoBot.handle_transaction_id_input, reached from handle_text_input
\* in state waiting_transaction_id
handle_transaction_id_input(user_id, transaction_id) ==
    /\ user_id \in DOMAIN user_states
    /\ user_states[user_id].state = "waiting_transaction_id"
    /\ LET db_transaction == IF transaction_id.kind = "uuid"
                             THEN db_get_transaction_by_uuid(transaction_id.val)
                             ELSE {}
           told_uuid == IF transaction_id.kind = "uuid" THEN transaction_id.val ELSE 0
           tx_ids == IF transaction_id.kind = "uuid"
                     THEN {r.id : r \in db_transaction}
                     ELSE IF transaction_id.kind = "num" /\ transaction_id.val >= 0
                          THEN {transaction_id.val}
                          ELSE {}
       IN  IF transaction_id.kind = "uuid" /\ db_transaction = {}
           THEN /\ last' = Reply("transaction_id_input", user_id, told_uuid,
                                 "uuid_not_found", NoFound, transaction_id)
                /\ calls' = <<>>
                /\ UNCHANGED user_states
           ELSE IF tx_ids = {}
           THEN /\ last' = Reply("transaction_id_input", user_id, told_uuid,
                                 "invalid_id", NoFound, transaction_id)
                /\ calls' = <<>>
                /\ UNCHANGED user_states
           ELSE \E tx_id \in tx_ids :
                LET tx_info == get_transaction(tx_id) IN
                /\ calls' = <<tx_id>>
                /\ IF tx_info = {}
                   THEN /\ last' = Reply("transaction_id_input", user_id, told_uuid,
                                         "tx_not_found", NoFound, transaction_id)
                        /\ UNCHANGED user_states
                   ELSE IF ~ ConfirmAllowed(tx_info)
                   THEN /\ last' = Reply("transaction_id_input", user_id, told_uuid,
                                         "wrong_state", NoFound, transaction_id)
                        /\ UNCHANGED user_states
                   ELSE /\ \E t \in tx_info :
                             last' = Reply("transaction_id_input", user_id, told_uuid,
                                           "payload",
                                           Put(NoFound, told_uuid,
                                               [id |-> tx_id, recipient |-> t.recipient,
                                                amount |-> float(Num(0))]),
                                           transaction_id)
                        /\ user_states' = Del(user_states, user_id)
    /\ UNCHANGED <<pending_transactions, pending_file, transactions, schema, ledger,
                   uuids_issued, linked>>
    /\ UNCHANGED advVars
    /\ UNCHANGED runVars
    /\ UNCHANGED storeVars

\* AdvancedEscrowBot.confirm_delivery_transaction, the callback of the button
\* confirm_delivery_<tx_id>
confirm_delivery_transaction(user_id, tx_id) ==
    LET tx_info == get_transaction(tx_id) IN
    /\ calls' = <<tx_id>>
    /\ IF ~ ConfirmAllowed(tx_info)
       THEN last' = Reply("adv_confirm_delivery", user_id, 0, "error", NoFound, Num(tx_id))
       ELSE \E t \in tx_info :
              last' = Reply("adv_confirm_delivery", user_id, 0, "payload",
                            Put(NoFound, 0, [id |-> tx_id, recipient |-> t.recipient,
                                             amount |-> float(Num(0))]),
                            Num(tx_id))
    /\ UNCHANGED <<unifiedVars, schema, ledger, uuids_issued>>
    /\ UNCHANGED advVars
    /\ UNCHANGED runVars
    /\ UNCHANGED storeVars

(* -------------------- AdvancedEscrowBot create flow -------------------- *)
create_escrow_flow(user_id) ==
    /\ adv_user_data' = Put(adv_user_data, user_id, [step |-> "recipient", data |-> NoMap])
    /\ last' = Reply("adv_create_escrow", user_id, 0, "prompt_recipient", NoFound, EMPTY)
    /\ calls' = <<>>
    /\ UNCHANGED <<adv_pending, adv_pending_file, unifiedVars, schema, ledger, uuids_issued>>
    /\ UNCHANGED runVars
    /\ UNCHANGED storeVars

is_valid_tron_address(address) ==
    IF address = EMPTY \/ address.len # ADDR_LEN THEN FALSE
    ELSE IF address.first # "T" THEN FALSE
    ELSE address.b58

\* the range test of the amount step of create_escrow_step_handler
AdvAmountRejected(text) ==
    \/ text.kind = "text"
    \/ FloatLe(float(text), ADV_MIN_AMOUNT)
    \/ FloatGt(float(text), ADV_MAX_AMOUNT)

\* create_escrow_step_handler at step 'recipient'
adv_recipient_step(user_id, text) ==
    /\ user_id \in DOMAIN adv_user_data
    /\ adv_user_data[user_id].step = "recipient"
    /\ IF ~ is_valid_tron_address(text)
       THEN /\ last' = Reply("adv_step", user_id, 0, "invalid_address", NoFound, text)
            /\ UNCHANGED adv_user_data
       ELSE /\ adv_user_data' = [adv_user_data EXCEPT
                    ![user_id].data = Put(@, "recipient", text),
                    ![user_id].step = "amount"]
            /\ last' = Reply("adv_step", user_id, 0, "prompt_amount", NoFound, text)
    /\ calls' = <<>>
    /\ UNCHANGED <<adv_pending, adv_pending_file, unifiedVars, schema, ledger, uuids_issued>>
    /\ UNCHANGED runVars
    /\ UNCHANGED storeVars

\* create_escrow_step_handler at step 'amount', with show_transaction_summary
adv_amount_step(user_id, text) ==
    /\ user_id \in DOMAIN adv_user_data
    /\ adv_user_data[user_id].step = "amount"
    /\ IF AdvAmountRejected(text)
       THEN /\ last' = Reply("adv_step", user_id, 0, "invalid_amount", NoFound, text)
            /\ UNCHANGED <<adv_user_data, adv_pending, adv_pending_file, uuids_issued>>
       ELSE /\ uuids_issued < MaxUUID
            /\ \E transaction_uuid \in uuid4 :
                /\ uuids_issued' = uuids_issued + 1
                /\ adv_pending' = Put(adv_pending, transaction_uuid,
                       [user_id |-> user_id, created_at |-> clock,
                        status |-> "pending_signature",
                        data |-> Put(adv_user_data[user_id].data, "amount", float(text))])
                /\ adv_pending_file' = adv_pending'
                /\ adv_user_data' = Del(adv_user_data, user_id)
                /\ last' = Reply("adv_step", user_id, transaction_uuid, "summary",
                                 NoFound, text)
    /\ calls' = <<>>
    /\ UNCHANGED <<unifiedVars, schema, ledger>>
    /\ UNCHANGED runVars
    /\ UNCHANGED storeVars

cancel_transaction_handler(user_id, transaction_uuid) ==
    /\ transaction_uuid \in 1 .. uuids_issued
    /\ IF transaction_uuid \in DOMAIN adv_pending
       THEN /\ adv_pending' = Del(adv_pending, transaction_uuid)
            /\ adv_pending_file' = adv_pending'
            /\ last' = Reply("adv_cancel", user_id, transaction_uuid, "cancelled",
                             NoFound, EMPTY)
       ELSE /\ last' = Reply("adv_cancel", user_id, transaction_uuid, "not_found",
                             NoFound, EMPTY)
            /\ UNCHANGED <<adv_pending, adv_pending_file>>
    /\ calls' = <<>>
    /\ UNCHANGED <<adv_user_data, unifiedVars, schema, ledger, uuids_issued>>
    /\ UNCHANGED runVars
    /\ UNCHANGED storeVars

(* ------------------ AdvancedEscrowBot reconciliation ------------------- *)
\* abs(a - b) < 0.000001 on the amounts of the model, which are whole numbers
\* or NaN: a comparison with NaN is False
FloatNear(n, f) == ~ f.nan /\ n = f.val

\* mutant: the amount is not compared
matches_pending_transaction_AnyAmount(tx_info, pending_data) ==
    IF "recipient" \notin DOMAIN pending_data \/ "amount" \notin DOMAIN pending_data
    THEN FALSE
    ELSE lower(tx_info.recipient) = lower(pending_data.recipient)

\* AdvancedEscrowBot.matches_pending_transaction: recipient and amount; the
\* state of the record is not read; a missing key raises and gives False
matches_pending_transaction(tx_info, pending_data) ==
    IF "recipient" \notin DOMAIN pending_data \/ "amount" \notin DOMAIN pending_data
    THEN FALSE
    ELSE /\ lower(tx_info.recipient) = lower(pending_data.recipient)
         /\ FloatNear(tx_info.amount_usdt, pending_data.amount)

\* the for loop of check_pending_transaction_status over
\* range(max(0, tx_count - 10), tx_count): upwards from tx_id, first match wins
RECURSIVE AdvScan(_, _, _, _)
AdvScan(tx_id, tx_count, pending_data, log) ==
    IF tx_id >= tx_count
    THEN [found |-> {}, calls |-> log]
    ELSE LET tx_info == get_transaction(tx_id)
             log2 == Append(log, tx_id)
         IN  IF \E t \in tx_info : matches_pending_transaction(t, pending_data)
             THEN [found |-> {tx_id}, calls |-> log2]
             ELSE AdvScan(tx_id + 1, tx_count, pending_data, log2)

\* AdvancedEscrowBot.db_add_transaction: INSERT OR REPLACE on the primary key
\* id; a NaN amount is bound as NULL, which the NOT NULL column refuses, and
\* the exception is logged and dropped
adv_db_add_transaction(rows, row) ==
    IF row.amount_usdt.nan THEN rows
    ELSE {r \in rows : r.id # row.id} \cup {row}

\* users_data[user_id] after handle_confirmed_transaction appended the deal
RecordDeal(user_data, transaction_record) ==
    Put(Put(user_data, "transactions_created", user_data.transactions_created + 1),
        "transactions", Append(Get(user_data, "transactions", <<>>), transaction_record))

\* AdvancedEscrowBot.start: the user is registered on first contact
adv_start(user_id) ==
    /\ user_id \notin DOMAIN users_data
    /\ users_data' = Put(users_data, user_id, [transactions_created |-> 0])
    /\ users_data_file' = users_data'
    /\ last' = Reply("adv_start", user_id, 0, "welcome", NoFound, EMPTY)
    /\ calls' = <<>>
    /\ UNCHANGED <<unifiedVars, schema, ledger, uuids_issued, adv_transactions, clock>>
    /\ UNCHANGED advVars
    /\ UNCHANGED runVars
    /\ UNCHANGED toolVars

\* check_transaction_status_handler for the button check_tx_status_<uuid>,
\* with check_pending_transaction_status and handle_confirmed_transaction
check_pending_transaction_status(user_id, transaction_uuid) ==
    /\ transaction_uuid \in 1 .. uuids_issued
    /\ IF transaction_uuid \notin DOMAIN adv_pending
       THEN /\ last' = Reply("adv_check_tx_status", user_id, transaction_uuid,
                             "not_found", NoFound, EMPTY)
            /\ calls' = <<>>
            /\ UNCHANGED <<adv_pending, adv_pending_file, adv_transactions, users_data,
                           users_data_file>>
       ELSE IF get_transaction_count = {}
       THEN \* tx_count is None: tx_count - 10 raises, the except replies
            /\ last' = Reply("adv_check_tx_status", user_id, transaction_uuid,
                             "error", NoFound, EMPTY)
            /\ calls' = <<>>
            /\ UNCHANGED <<adv_pending, adv_pending_file, adv_transactions, users_data,
                           users_data_file>>
       ELSE LET tx_count == CHOOSE n \in get_transaction_count : TRUE
                pending_tx == adv_pending[transaction_uuid]
                scan == AdvScan(Max(0, tx_count - LOOKBACK), tx_count, pending_tx.data, <<>>)
            IN  /\ calls' = scan.calls
                /\ IF scan.found # {}
                   THEN \E found_tx_id \in scan.found :
                        /\ adv_pending' = Del(adv_pending, transaction_uuid)
                        /\ adv_pending_file' = adv_pending'
                        /\ IF user_id \in DOMAIN users_data
                           THEN /\ users_data' = [users_data EXCEPT ![user_id] =
                                      RecordDeal(@, [id |-> found_tx_id,
                                                     amount |-> pending_tx.data.amount,
                                                     recipient |-> pending_tx.data.recipient,
                                                     status |-> "AWAITING_DELIVERY"])]
                                /\ users_data_file' = users_data'
                           ELSE UNCHANGED <<users_data, users_data_file>>
                        /\ adv_transactions' = adv_db_add_transaction(adv_transactions,
                               Row(found_tx_id, user_id, pending_tx.data.amount,
                                   pending_tx.data.recipient, "AWAITING_DELIVERY",
                                   "sender", 0))
                        /\ last' = Reply("adv_check_tx_status", user_id, transaction_uuid,
                               "found",
                               Put(NoFound, transaction_uuid,
                                   [id |-> found_tx_id,
                                    recipient |-> pending_tx.data.recipient,
                                    amount |-> pending_tx.data.amount]), EMPTY)
                   ELSE /\ last' = Reply("adv_check_tx_status", user_id, transaction_uuid,
                                         "not_yet_found", NoFound, EMPTY)
                        /\ UNCHANGED <<adv_pending, adv_pending_file, adv_transactions,
                                       users_data, users_data_file>>
    /\ UNCHANGED <<adv_user_data, unifiedVars, schema, ledger, uuids_issued, clock>>
    /\ UNCHANGED runVars
    /\ UNCHANGED toolVars

(* ------------- TronEscrowUSDTClient: create with auto approve ---------- *)
\* no call has been made: nothing broadcast, no result
NoCall == [pc |-> "idle", amount_usdt |-> 0, approve_txid |-> {}, polls |-> 0,
           seen_ret |-> FALSE, broadcasts |-> <<>>, result |-> {}]

\* what create_transaction_with_auto_approve returns: Tuple[approve_txid,
\* create_txid], None being the empty set
Result(approve_txid, create_txid) == [approve_txid |-> approve_txid, create_txid |-> create_txid]

\* the amounts the wallet is asked to lock: the fee, one above it, and more
\* than any balance
ClientAmounts == {ADV_MIN_AMOUNT, ADV_MIN_AMOUNT + 1, ADV_MAX_AMOUNT + 1}

\* approve_usdt inside create_transaction_with_auto_approve: the approve is
\* built, signed and broadcast, or an exception makes approve_usdt return None
approve_usdt(amount_usdt, broadcast_ok) ==
    /\ client.pc = "idle"
    /\ IF broadcast_ok
       THEN client' = [client EXCEPT !.pc = "waiting", !.amount_usdt = amount_usdt,
                                     !.approve_txid = {"approve_txid"},
                                     !.broadcasts = Append(@, "approve")]
       ELSE client' = [client EXCEPT !.pc = "done", !.amount_usdt = amount_usdt,
                                     !.result = {Result({}, {})}]
    /\ last' = Reply("approve_usdt", "-", 0, IF broadcast_ok THEN "broadcast" ELSE "failed",
                     NoFound, Num(amount_usdt))
    /\ calls' = <<>>
    /\ UNCHANGED <<unifiedVars, schema, ledger, uuids_issued, adv_transactions, users_data,
                   users_data_file, clock, mapping_file, mapping_ops>>
    /\ UNCHANGED advVars
    /\ UNCHANGED runVars

\* mutant: any answer of the node counts as a confirmation
PollConfirms_Any(tx_info) == tx_info \in {"ret", "no_ret"}

\* if tx_info.get('ret'): the node knows the approve and reports its result
PollConfirms(tx_info) == tx_info = "ret"

\* one round of the loop of wait_for_transaction: tron.get_transaction(txid)
\* answers with a result, answers without one, or raises; the loop sleeps a
\* second and goes on unless the result was there
wait_for_transaction_poll(tx_info) ==
    /\ client.pc = "waiting"
    /\ client.polls < WAIT_TIMEOUT
    /\ IF tx_info # "raises" /\ PollConfirms(tx_info)
       THEN client' = [client EXCEPT !.pc = "creating", !.seen_ret = (tx_info = "ret")]
       ELSE client' = [client EXCEPT !.polls = @ + 1]
    /\ last' = Reply("wait_for_transaction", "-", 0, tx_info, NoFound, EMPTY)
    /\ calls' = <<>>
    /\ UNCHANGED <<unifiedVars, schema, ledger, uuids_issued, adv_transactions, users_data,
                   users_data_file, clock, mapping_file, mapping_ops>>
    /\ UNCHANGED advVars
    /\ UNCHANGED runVars

\* range(timeout) is used up: wait_for_transaction returns False and the
\* caller returns approve_txid, None
wait_for_transaction_timeout ==
    /\ client.pc = "waiting"
    /\ client.polls >= WAIT_TIMEOUT
    /\ client' = [client EXCEPT !.pc = "done",
                                !.result = {Result(client.approve_txid, {})}]
    /\ last' = Reply("wait_for_transaction", "-", 0, "timeout", NoFound, EMPTY)
    /\ calls' = <<>>
    /\ UNCHANGED <<unifiedVars, schema, ledger, uuids_issued, adv_transactions, users_data,
                   users_data_file, clock, mapping_file, mapping_ops>>
    /\ UNCHANGED advVars
    /\ UNCHANGED runVars

\* create_transaction after the wait: the amount must exceed the fee of 5
\* USDT, balance and allowance must cover it, and the broadcast must succeed;
\* otherwise it returns None
create_transaction(balance_ok, allowance_ok, broadcast_ok) ==
    /\ client.pc = "creating"
    /\ IF FloatLe(float(Num(client.amount_usdt)), ADV_MIN_AMOUNT)
          \/ ~ balance_ok \/ ~ allowance_ok \/ ~ broadcast_ok
       THEN client' = [client EXCEPT !.pc = "done",
                                     !.result = {Result(client.approve_txid, {})}]
       ELSE client' = [client EXCEPT !.pc = "done",
                                     !.broadcasts = Append(@, "create"),
                                     !.result = {Result(client.approve_txid,
                                                        {"create_txid"})}]
    /\ last' = Reply("create_transaction", "-", 0, "returned", NoFound, EMPTY)
    /\ calls' = <<>>
    /\ UNCHANGED <<unifiedVars, schema, ledger, uuids_issued, adv_transactions, users_data,
                   users_data_file, clock, mapping_file, mapping_ops>>
    /\ UNCHANGED advVars
    /\ UNCHANGED runVars

(* --------------------------- uuid_mapping.py --------------------------- *)
\* the mapping file does not exist
NoFile == [exists |-> FALSE, content |-> NoMap]

\* UUIDMapping.load_mapping: the content of the file, {} when it is absent
load_mapping == IF mapping_file.exists THEN mapping_file.content ELSE NoMap

\* UUIDMapping.save_mapping: the file is created or overwritten
save_mapping(mapping) == [exists |-> TRUE, content |-> mapping]

\* mutant: the mapping is saved without the new pair
add_mapping_Update_Lost(mapping, uuid, blockchain_id) ==
    IF uuid \in DOMAIN mapping THEN mapping ELSE Put(mapping, uuid, blockchain_id)

\* mapping[uuid] = blockchain_id
add_mapping_Update(mapping, uuid, blockchain_id) == Put(mapping, uuid, blockchain_id)

\* UUIDMapping.add_mapping
add_mapping(uuid, blockchain_id) ==
    /\ Len(mapping_ops) < MaxOps
    /\ mapping_file' = save_mapping(add_mapping_Update(load_mapping, uuid, blockchain_id))
    /\ mapping_ops' = Append(mapping_ops, [op |-> "add", uuid |-> uuid, id |-> blockchain_id])
    /\ last' = Reply("add_mapping", "-", uuid, "ok", NoFound, Num(blockchain_id))
    /\ calls' = <<>>
    /\ UNCHANGED <<unifiedVars, schema, ledger, uuids_issued, adv_transactions, users_data,
                   users_data_file, clock, client>>
    /\ UNCHANGED advVars
    /\ UNCHANGED runVars

\* UUIDMapping.remove_mapping: the file is written only when the UUID is there
remove_mapping(uuid) ==
    /\ Len(mapping_ops) < MaxOps
    /\ LET mapping == load_mapping IN
       IF uuid \in DOMAIN mapping
       THEN /\ mapping_file' = save_mapping(Del(mapping, uuid))
            /\ last' = Reply("remove_mapping", "-", uuid, "removed", NoFound, EMPTY)
       ELSE /\ UNCHANGED mapping_file
            /\ last' = Reply("remove_mapping", "-", uuid, "absent", NoFound, EMPTY)
    /\ mapping_ops' = Append(mapping_ops, [op |-> "remove", uuid |-> uuid, id |-> 0])
    /\ calls' = <<>>
    /\ UNCHANGED <<unifiedVars, schema, ledger, uuids_issued, adv_transactions, users_data,
                   users_data_file, clock, client>>
    /\ UNCHANGED advVars
    /\ UNCHANGED runVars

\* UUIDMapping.get_blockchain_id: mapping.get(uuid), None being the empty set;
\* the reply carries the value under found
get_blockchain_id(uuid) ==
    /\ LET mapping == load_mapping IN
       last' = Reply("get_blockchain_id", "-", uuid,
                     IF uuid \in DOMAIN mapping THEN "id" ELSE "none",
                     IF uuid \in DOMAIN mapping
                     THEN Put(NoFound, uuid, [id |-> mapping[uuid], recipient |-> EMPTY,
                                              amount |-> float(Num(0))])
                     ELSE NoFound,
                     EMPTY)
    /\ calls' = <<>>
    /\ UNCHANGED <<unifiedVars, schema, ledger, uuids_issued, adv_transactions, users_data,
                   users_data_file, clock, client, mapping_file, mapping_ops>>
    /\ UNCHANGED advVars
    /\ UNCHANGED runVars

(* ----------------------- cleanup_data.py DataCleaner ------------------ *)
\* DataCleaner.get_blockchain_transaction_ids: the indices below the count
\* whose lookup returned a record; the empty set when the count is None
get_blockchain_transaction_ids ==
    IF get_transaction_count = {}
    THEN {}
    ELSE LET tx_count == CHOOSE n \in get_transaction_count : TRUE
         IN  {tx_id \in 0 .. (tx_count - 1) : get_transaction(tx_id) # {}}

\* the elements of a list that satisfy keep, in their order
RECURSIVE FilterSeq(_, _)
FilterSeq(list, valid_tx_ids) ==
    IF list = <<>> THEN <<>>
    ELSE IF Head(list).id \in valid_tx_ids
         THEN <<Head(list)>> \o FilterSeq(Tail(list), valid_tx_ids)
         ELSE FilterSeq(Tail(list), valid_tx_ids)

\* DataCleaner.cleanup_scripts_users_data: the content it computes and whether
\* it saves it (only when some user lost a transaction)
cleanup_scripts_users_data(data, valid_tx_ids) ==
    LET cleaned_user(user_data) ==
            IF "transactions" \in DOMAIN user_data
            THEN LET valid_transactions == FilterSeq(user_data.transactions, valid_tx_ids)
                 IN  Put(Put(user_data, "transactions", valid_transactions),
                         "transactions_created", Len(valid_transactions))
            ELSE user_data
        cleaned == \E user_id \in DOMAIN data :
                      /\ "transactions" \in DOMAIN data[user_id]
                      /\ \E i \in 1 .. Len(data[user_id].transactions) :
                            data[user_id].transactions[i].id \notin valid_tx_ids
    IN  IF cleaned
        THEN [data |-> [user_id \in DOMAIN data |-> cleaned_user(data[user_id])],
              saved |-> TRUE]
        ELSE [data |-> data, saved |-> FALSE]

\* DataCleaner.cleanup_database: DELETE FROM transactions WHERE id IN (the ids
\* of the rows that are not in valid_tx_ids)
cleanup_database(rows, valid_tx_ids) == {r \in rows : r.id \in valid_tx_ids}

\* mutant: an entry of exactly 24 hours is removed as well
TooOld_AtLeast(current_time, tx_data) ==
    (current_time - Get(tx_data, "created_at", 0)) >= MAX_AGE_HOURS * HOUR

\* age_hours = (current_time - created_at) / 3600; age_hours > 24
TooOld(current_time, tx_data) ==
    (current_time - Get(tx_data, "created_at", 0)) > MAX_AGE_HOURS * HOUR

\* DataCleaner.cleanup_pending_transactions: the file afterwards and whether
\* it was written
cleanup_pending_transactions(data, current_time) ==
    LET removed == {tx_uuid \in DOMAIN data : TooOld(current_time, data[tx_uuid])}
    IN  IF removed # {}
        THEN [data |-> [tx_uuid \in DOMAIN data \ removed |-> data[tx_uuid]],
              saved |-> TRUE]
        ELSE [data |-> data, saved |-> FALSE]

\* what a run of the cleaner did: the IDs it took for valid and the files it wrote
CleanerReport(valid_tx_ids, users_saved, pending_saved) ==
    [valid_tx_ids |-> valid_tx_ids, users_saved |-> users_saved,
     pending_saved |-> pending_saved]

\* mutant: the cleanup goes on without valid IDs
RunCancelled_Never(valid_tx_ids) == FALSE

\* if not valid_tx_ids: the cleanup is cancelled
RunCancelled(valid_tx_ids) == valid_tx_ids = {}

\* DataCleaner.run: scripts/users_data.json, the table of bots/unified_escrow.db
\* and scripts/pending_transactions.json
DataCleaner_run ==
    LET valid_tx_ids == get_blockchain_transaction_ids IN
    /\ calls' = <<>>
    /\ IF RunCancelled(valid_tx_ids)
       THEN /\ last' = Reply("cleanup", "-", 0, "cancelled", NoFound,
                             CleanerReport(valid_tx_ids, FALSE, FALSE))
            /\ UNCHANGED <<users_data_file, transactions, adv_pending_file>>
       ELSE LET users == cleanup_scripts_users_data(users_data_file, valid_tx_ids)
                pending == cleanup_pending_transactions(adv_pending_file, clock)
            IN  /\ users_data_file' = users.data
                /\ transactions' = cleanup_database(transactions, valid_tx_ids)
                /\ adv_pending_file' = pending.data
                /\ last' = Reply("cleanup", "-", 0, "cleaned", NoFound,
                                 CleanerReport(valid_tx_ids, users.saved, pending.saved))
    /\ UNCHANGED <<user_states, pending_transactions, pending_file, linked, schema, ledger,
                   uuids_issued, adv_user_data, adv_pending, adv_transactions, users_data,
                   clock>>
    /\ UNCHANGED runVars
    /\ UNCHANGED toolVars

\* the instants at which the clock is read after the start: the last three
\* seconds up to MaxClock
Instants == (MaxClock - 2) .. MaxClock

\* time passes up to a later instant
Tick(instant) ==
    /\ instant > clock
    /\ clock' = instant
    /\ last' = Reply("tick", "-", 0, "ok", NoFound, EMPTY)
    /\ calls' = <<>>
    /\ UNCHANGED <<unifiedVars, schema, ledger, uuids_issued, adv_transactions, users_data,
                   users_data_file>>
    /\ UNCHANGED advVars
    /\ UNCHANGED runVars
    /\ UNCHANGED toolVars

(* --------------------------- specifications ---------------------------- *)
Start == Reply("start", "-", 0, "ok", NoFound, EMPTY)

\* both bots freshly started on empty stores, the table created by init_db
Init ==
    /\ user_states = NoMap
    /\ pending_transactions = NoMap
    /\ pending_file = NoMap
    /\ transactions = {}
    /\ schema = "unique"
    /\ ledger = <<>>
    /\ uuids_issued = 0
    /\ adv_user_data = NoMap
    /\ adv_pending = NoMap
    /\ adv_pending_file = NoMap
    /\ linked = NoMap
    /\ calls = <<>>
    /\ last = Start
    /\ handlers = NoHandlers
    /\ adv_transactions = {}
    /\ users_data = NoMap
    /\ users_data_file = NoMap
    /\ clock = 0
    /\ client = NoCall
    /\ mapping_file = NoFile
    /\ mapping_ops = <<>>
    /\ faults = NoFaults

\* the unified bot with its create flow and a short ledger
Next ==
    \/ \E user_id \in Users : create_escrow_handler(user_id)
    \/ \E user_id \in Users, text \in RecipientInputs : handle_recipient_input(user_id, text)
    \/ \E user_id \in Users, text \in AmountInputs : handle_amount_input(user_id, text)
    \/ \E user_id \in Users : escrow_menu_callback(user_id)
    \/ \E user_id \in Users : confirm_escrow_handler(user_id)
    \/ \E user_id \in Users, tx_uuid \in 1 .. MaxUUID : check_tx_status_handler(user_id, tx_uuid)
    \/ \E recipient \in {AddrA, AddrOther} : LedgerCreate(MaxFlowLedger, recipient)
    \/ \E i \in 1 .. MaxFlowLedger : LedgerComplete(i)

Spec == Init /\ [][Next]_vars

\* the advanced bot's create flow
NextAdv ==
    \/ \E user_id \in Users : create_escrow_flow(user_id)
    \/ \E user_id \in Users, text \in AdvRecipientInputs : adv_recipient_step(user_id, text)
    \/ \E user_id \in Users, text \in AdvAmountInputs : adv_amount_step(user_id, text)
    \/ \E user_id \in Users, u \in 1 .. MaxUUID : cancel_transaction_handler(user_id, u)

SpecAdv == Init /\ [][NextAdv]_vars


\* a pending entry as the create flow leaves it (create_escrow_handler,
\* handle_recipient_input, handle_amount_input)
ScanEntry(uuid) ==
    [user_id |-> IF uuid % 2 = 1 THEN "u1" ELSE "u2",
     status |-> "pending_signature",
     data |-> [recipient |-> IF uuid = 1 THEN AddrAlow ELSE AddrA,
               amount |-> float(Num(ADV_MIN_AMOUNT + 1))]]

\* the unified bot after MaxUUID completed create flows, nothing signed yet
InitScan ==
    /\ user_states = NoMap
    /\ pending_transactions = [uuid \in 1 .. MaxUUID |-> ScanEntry(uuid)]
    /\ pending_file = pending_transactions
    /\ transactions = {}
    /\ schema = "unique"
    /\ ledger = <<>>
    /\ uuids_issued = MaxUUID
    /\ adv_user_data = NoMap
    /\ adv_pending = NoMap
    /\ adv_pending_file = NoMap
    /\ linked = NoMap
    /\ calls = <<>>
    /\ last = Start
    /\ handlers = NoHandlers
    /\ adv_transactions = {}
    /\ users_data = NoMap
    /\ users_data_file = NoMap
    /\ clock = 0
    /\ client = NoCall
    /\ mapping_file = NoFile
    /\ mapping_ops = <<>>
    /\ faults = NoFaults

\* reconciliation by the bot and by the sync script against a growing ledger
NextScan ==
    \/ \E user_id \in Users, tx_uuid \in 1 .. MaxUUID : check_tx_status_handler(user_id, tx_uuid)
    \/ sync_pending_transactions
    \/ \E recipient \in {AddrA, AddrOther} : LedgerCreate(MaxLedger, recipient)
    \/ \E i \in 1 .. MaxLedger : LedgerComplete(i)

SpecScan == InitScan /\ [][NextScan]_vars

\* the same on a table created before the uuid column existed: init_db's
\* ALTER TABLE ... ADD COLUMN uuid TEXT UNIQUE is refused by SQLite
InitLegacy ==
    /\ user_states = NoMap
    /\ pending_transactions = [uuid \in 1 .. MaxUUID |-> ScanEntry(uuid)]
    /\ pending_file = pending_transactions
    /\ transactions = {}
    /\ schema = "nocolumn"
    /\ ledger = <<>>
    /\ uuids_issued = MaxUUID
    /\ adv_user_data = NoMap
    /\ adv_pending = NoMap
    /\ adv_pending_file = NoMap
    /\ linked = NoMap
    /\ calls = <<>>
    /\ last = Start
    /\ handlers = NoHandlers
    /\ adv_transactions = {}
    /\ users_data = NoMap
    /\ users_data_file = NoMap
    /\ clock = 0
    /\ client = NoCall
    /\ mapping_file = NoFile
    /\ mapping_ops = <<>>
    /\ faults = NoFaults

NextLegacy ==
    \/ NextScan
    \/ update_database_schema

SpecLegacy == InitLegacy /\ [][NextLegacy]_vars

\* reconciliation by the bot against a ledger whose node fails at times
NextFault ==
    \/ \E user_id \in Users, tx_uuid \in 1 .. MaxUUID : check_tx_status_handler(user_id, tx_uuid)
    \/ \E recipient \in {AddrA, AddrOther} : LedgerCreate(MaxLedger, recipient)
    \/ \E i \in 0 .. (MaxLedger - 1) : LedgerLookupFails(i)
    \/ LedgerCountFails
    \/ LedgerRecovers

SpecFault == InitScan /\ [][NextFault]_vars

\* a pending entry of the advanced bot as its amount step stores it
AdvScanEntry(uuid) ==
    [user_id |-> IF uuid % 2 = 1 THEN "u1" ELSE "u2",
     created_at |-> 0,
     status |-> "pending_signature",
     data |-> [recipient |-> IF uuid = 1 THEN AddrAlow ELSE AddrA,
               amount |-> float(Num(ADV_MIN_AMOUNT + uuid))]]

\* the advanced bot after MaxUUID completed create flows, nothing signed yet
InitAdvScan ==
    /\ user_states = NoMap
    /\ pending_transactions = NoMap
    /\ pending_file = NoMap
    /\ transactions = {}
    /\ schema = "unique"
    /\ ledger = <<>>
    /\ uuids_issued = MaxUUID
    /\ adv_user_data = NoMap
    /\ adv_pending = [uuid \in 1 .. MaxUUID |-> AdvScanEntry(uuid)]
    /\ adv_pending_file = adv_pending
    /\ linked = NoMap
    /\ calls = <<>>
    /\ last = Start
    /\ handlers = NoHandlers
    /\ faults = NoFaults
    /\ adv_transactions = {}
    /\ users_data = NoMap
    /\ users_data_file = NoMap
    /\ clock = 0
    /\ client = NoCall
    /\ mapping_file = NoFile
    /\ mapping_ops = <<>>

\* the advanced bot's status check against a ledger that grows: escrows to
\* the pending recipient of each amount asked for, and escrows to others;
\* one user registers, the other never sent /start
NextAdvScan ==
    \/ adv_start("u1")
    \/ \E user_id \in Users, transaction_uuid \in 1 .. MaxUUID :
          check_pending_transaction_status(user_id, transaction_uuid)
    \/ LedgerCreate(MaxLedger, AddrOther)
    \/ \E n \in 1 .. MaxUUID : LedgerCreateFor(MaxLedger, AddrA, ADV_MIN_AMOUNT + n)
    \/ \E i \in 1 .. MaxLedger : LedgerComplete(i)

SpecAdvScan == InitAdvScan /\ [][NextAdvScan]_vars

\* a pending entry of the advanced bot, the second created one second after
\* the first
CleanEntry(uuid) == [AdvScanEntry(uuid) EXCEPT !.created_at = uuid - 1,
                                               !.data.amount = float(Num(ADV_MIN_AMOUNT + 1))]

\* both bots after MaxUUID completed create flows each, nothing signed yet
InitClean ==
    /\ user_states = NoMap
    /\ pending_transactions = [uuid \in 1 .. MaxUUID |-> ScanEntry(uuid)]
    /\ pending_file = pending_transactions
    /\ transactions = {}
    /\ schema = "unique"
    /\ ledger = <<>>
    /\ uuids_issued = MaxUUID
    /\ adv_user_data = NoMap
    /\ adv_pending = [uuid \in 1 .. MaxUUID |-> CleanEntry(uuid)]
    /\ adv_pending_file = adv_pending
    /\ linked = NoMap
    /\ calls = <<>>
    /\ last = Start
    /\ handlers = NoHandlers
    /\ faults = NoFaults
    /\ adv_transactions = {}
    /\ users_data = [user_id \in {"u1"} |-> [transactions_created |-> 0]]
    /\ users_data_file = users_data
    /\ clock = MaxUUID - 1
    /\ client = NoCall
    /\ mapping_file = NoFile
    /\ mapping_ops = <<>>

\* the cleaner run from time to time beside the two bots, on a ledger whose
\* node fails at times
NextClean ==
    \/ DataCleaner_run
    \/ \E instant \in Instants : Tick(instant)
    \/ \E tx_uuid \in 1 .. MaxUUID : check_tx_status_handler("u1", tx_uuid)
    \/ \E transaction_uuid \in 1 .. MaxUUID :
          check_pending_transaction_status("u1", transaction_uuid)
    \/ LedgerCreate(MaxMatching, AddrA)
    \/ \E i \in 0 .. (MaxMatching - 1) : LedgerLookupFails(i)
    \/ LedgerCountFails
    \/ LedgerRecovers

SpecClean == InitClean /\ [][NextClean]_vars

\* one call of create_transaction_with_auto_approve against a node that
\* broadcasts or refuses and confirms sooner, later or never
NextClient ==
    \/ \E amount_usdt \in ClientAmounts, broadcast_ok \in BOOLEAN :
          approve_usdt(amount_usdt, broadcast_ok)
    \/ \E tx_info \in {"ret", "no_ret", "raises"} : wait_for_transaction_poll(tx_info)
    \/ wait_for_transaction_timeout
    \/ \E balance_ok \in BOOLEAN, allowance_ok \in BOOLEAN, broadcast_ok \in BOOLEAN :
          create_transaction(balance_ok, allowance_ok, broadcast_ok)

SpecClient == Init /\ [][NextClient]_vars

\* a single caller of UUIDMapping on a file that does not exist at first
NextMapping ==
    \/ \E uuid \in 1 .. MaxUUID, blockchain_id \in 0 .. MaxMatching :
          add_mapping(uuid, blockchain_id)
    \/ \E uuid \in 1 .. MaxUUID : remove_mapping(uuid)
    \/ \E uuid \in 1 .. MaxUUID : get_blockchain_id(uuid)

SpecMapping == Init /\ [][NextMapping]_vars

\* what is typed as the deal to confirm
TransactionIdInputs ==
    {Uuid(u) : u \in 1 .. MaxUUID} \cup {Num(n) : n \in (-1) .. MaxMatching} \cup {NotANumber}

\* confirm-delivery requests of both bots against a ledger that moves on and
\* whose node fails at times
NextConfirm ==
    \/ \E user_id \in Users : confirm_escrow_handler(user_id)
    \/ \E user_id \in Users, text \in TransactionIdInputs :
          handle_transaction_id_input(user_id, text)
    \/ \E user_id \in Users, tx_id \in 0 .. MaxMatching :
          confirm_delivery_transaction(user_id, tx_id)
    \/ \E user_id \in Users, tx_uuid \in 1 .. MaxUUID : check_tx_status_handler(user_id, tx_uuid)
    \/ \E recipient \in {AddrA, AddrOther} : LedgerCreate(MaxMatching, recipient)
    \/ \E i \in 1 .. MaxMatching : LedgerComplete(i)
    \/ \E i \in 0 .. (MaxMatching - 1) : LedgerLookupFails(i)
    \/ LedgerRecovers

SpecConfirm == InitScan /\ [][NextConfirm]_vars

\* two check_tx_status_handler coroutines interleaved at their awaits, the
\* ledger growing meanwhile
NextConc ==
    \/ \E e \in Execs, user_id \in Users, tx_uuid \in 1 .. MaxUUID :
          check_tx_status_answer(e, user_id, tx_uuid)
    \/ \E e \in Execs : check_tx_status_run(e)
    \/ \E e \in Execs : check_tx_status_reply(e)
    \/ \E recipient \in {AddrA, AddrOther} : LedgerCreate(MaxMatching, recipient)

SpecConc == InitScan /\ [][NextConc]_vars


(* =============================== claims ================================ *)
\* uuid column values of the confirmed store
ConfirmedUuids(rows) == {r.uuid : r \in rows}

\* an amount text the unified bot's amount step accepts as a number
ValidAmountText(text) == text.kind = "num" /\ text.val > 0 /\ text.val <= MAX_AMOUNT

(* C1: for every valid recipient and every valid amount, the create flow of
   the unified bot (create_escrow_handler, handle_recipient_input,
   handle_amount_input) draws a UUID that is neither a key of the pending
   store nor a uuid of the confirmed store when the flow starts, and right
   after the amount step the pending entry under that UUID has status
   'pending_signature' with the entered recipient and amount. *)
C1_CreateYieldsFreshPending ==
    [][ /\ last'.op = "create_escrow" =>
             /\ last'.uuid \notin DOMAIN pending_transactions
             /\ last'.uuid \notin DOMAIN pending_file
             /\ last'.uuid \notin ConfirmedUuids(transactions)
             /\ user_states'[last'.user].transaction_id = last'.uuid
        /\ \A user_id \in DOMAIN user_states :
             ( /\ user_states[user_id].state = "waiting_amount"
               /\ last'.op = "amount_input"
               /\ last'.user = user_id
               /\ ValidAmountText(last'.input) ) =>
             LET uuid == user_states[user_id].transaction_id
                 entered == [recipient |-> user_states[user_id].data.recipient,
                             amount |-> float(last'.input)]
             IN  /\ last'.outcome = "payload"
                 /\ uuid \in DOMAIN pending_transactions'
                 /\ pending_transactions'[uuid].status = "pending_signature"
                 /\ pending_transactions'[uuid].data = entered
                 /\ pending_transactions'[uuid].user_id = user_id
                 /\ pending_file'[uuid] = pending_transactions'[uuid]
      ]_vars

\* the second flow has just been completed while the first UUID is still stored
C1_Witness ==
    /\ last.op = "amount_input"
    /\ last.outcome = "payload"
    /\ last.uuid = 2
    /\ DOMAIN pending_transactions = {1, 2}
    /\ pending_transactions[2].status = "pending_signature"
    /\ pending_transactions[2].data.recipient = AddrAlow

(* C2 (as claimed): an amount less than or equal to the fixed fee (5 USDT)
   entered at the amount step is rejected and the pending store holds no
   PendingEscrow for that flow afterwards. *)
C2_FeeOrLessRejected ==
    ( /\ last.op = "amount_input"
      /\ last.input.kind = "num"
      /\ last.input.val <= ADV_MIN_AMOUNT ) =>
        /\ last.outcome = "invalid_amount"
        /\ last.uuid \notin DOMAIN pending_transactions
        /\ last.uuid \notin DOMAIN pending_file


(* ---------------- reconciliation: what the claims speak of ------------- *)
\* the lookback window of the specification: the last LOOKBACK indices
SpecWindow(total) == {i \in 0 .. (total - 1) : i >= Max(0, total - LOOKBACK)}

\* record i has the recipient (case-insensitively) and state AWAITING_DELIVERY
IsMatch(i, recipient) ==
    /\ lower(ledger[i + 1].recipient) = lower(recipient)
    /\ ledger[i + 1].state = "AWAITING_DELIVERY"

WindowMatches(recipient) == {i \in SpecWindow(Len(ledger)) : IsMatch(i, recipient)}

SetMax(S) == CHOOSE x \in S : \A y \in S : y <= x

\* N-1, N-2, ..., max(0, N-10)
DescWindow(total) == [j \in 1 .. (total - Max(0, total - LOOKBACK)) |-> total - j]

IsPrefix(a, b) == Len(a) <= Len(b) /\ \A j \in 1 .. Len(a) : a[j] = b[j]

\* the last operation was a reconciliation that went to the ledger
BotReconciled ==
    last.op = "check_tx_status" /\ last.outcome \in {"found", "not_yet_found"}
SyncReconciled == last.op = "sync" /\ last.outcome = "synced"

\* the recipient the last check_tx_status_handler call reconciled
BotRecipient ==
    IF last.outcome = "found" THEN last.found[last.uuid].recipient
    ELSE Get(pending_transactions[last.uuid].data, "recipient", EMPTY)

(* C3: in check_tx_status_handler and in sync_pending_transactions a ledger
   record is selected as the match only if its recipient equals the pending
   recipient case-insensitively and its state is AWAITING_DELIVERY; a record
   in any other state is never selected. *)
C3_MatchNeedsRecipientAndState ==
    (BotReconciled \/ SyncReconciled) =>
        \A uuid \in DOMAIN last.found :
            /\ last.found[uuid].id \in 0 .. (Len(ledger) - 1)
            /\ ledger[last.found[uuid].id + 1].state = "AWAITING_DELIVERY"
            /\ lower(ledger[last.found[uuid].id + 1].recipient)
                 = lower(last.found[uuid].recipient)

\* a record with the pending recipient in state COMPLETE was looked up and
\* passed over, and an older record was selected; the recipient was typed in
\* another case than the ledger prints
C3_Witness ==
    /\ BotReconciled
    /\ last.outcome = "found"
    /\ last.found[last.uuid].recipient # ledger[last.found[last.uuid].id + 1].recipient
    /\ \E j \in 1 .. Len(calls) :
          /\ calls[j] > last.found[last.uuid].id
          /\ lower(ledger[calls[j] + 1].recipient) = lower(last.found[last.uuid].recipient)
          /\ ledger[calls[j] + 1].state = "COMPLETE"

(* C5 (as claimed): every get_transaction(i) call a reconciliation issues has
   max(0, N-10) <= i <= N-1, in check_tx_status_handler and in the per-UUID
   scan of sync_pending_transactions. *)
C5_CallsInsideWindow ==
    (BotReconciled \/ SyncReconciled) =>
        \A j \in 1 .. Len(calls) : calls[j] \in SpecWindow(Len(ledger))

(* C6 (as claimed): the scan of check_tx_status_handler examines N-1, N-2,
   ..., max(0, N-10) in that order, so a record at index N-10 that is the only
   one with the recipient and state AWAITING_DELIVERY is reported. *)
C6_ScansTenDescending ==
    BotReconciled =>
        /\ IsPrefix(calls, DescWindow(Len(ledger)))
        /\ last.outcome = "not_yet_found" =>
              /\ calls = DescWindow(Len(ledger))
              /\ WindowMatches(BotRecipient) = {}

(* C7 (as claimed): when check_tx_status_handler is called for a pending UUID
   and the lookback window holds a matching record, the newest such record k
   becomes the row (onChainId k, localId UUID, recipient and amount of the
   pending entry), the UUID leaves the pending store and success is reported
   with k. *)
C7_MatchInWindowIsConfirmed ==
    (BotReconciled /\ WindowMatches(BotRecipient) # {}) =>
        /\ last.outcome = "found"
        /\ last.uuid \notin DOMAIN pending_transactions
        /\ last.uuid \notin DOMAIN pending_file
        /\ LET k == last.found[last.uuid].id
           IN  /\ k = SetMax(WindowMatches(BotRecipient))
               /\ \E r \in transactions :
                     /\ r.id = k
                     /\ r.uuid = last.uuid
                     /\ r.recipient = last.found[last.uuid].recipient
                     /\ r.amount_usdt = last.found[last.uuid].amount

(* C8: when check_tx_status_handler is called for a pending UUID (one without
   a confirmed row) and no record of the lookback window has both the
   recipient and state AWAITING_DELIVERY, it reports 'not yet found' and
   leaves the pending store, the pending entry and the confirmed store as
   they were. *)
C8_NoMatchLeavesPending ==
    [][ \A uuid \in DOMAIN pending_transactions :
          ( /\ last'.op = "check_tx_status"
            /\ last'.uuid = uuid
            /\ db_get_transaction_by_uuid(uuid) = {}
            /\ WindowMatches(Get(pending_transactions[uuid].data, "recipient", EMPTY)) = {} )
          => /\ last'.outcome = "not_yet_found"
             /\ pending_transactions' = pending_transactions
             /\ pending_file' = pending_file
             /\ transactions' = transactions
      ]_vars

\* 'not yet found' was reported although the window holds a record with the
\* recipient, in state COMPLETE
C8_Witness ==
    /\ last.op = "check_tx_status"
    /\ last.outcome = "not_yet_found"
    /\ last.uuid \in DOMAIN pending_transactions
    /\ \E i \in SpecWindow(Len(ledger)) :
          /\ lower(ledger[i + 1].recipient)
               = lower(pending_transactions[last.uuid].data.recipient)
          /\ ledger[i + 1].state = "COMPLETE"

(* C9: when several records of the lookback window have the recipient and
   state AWAITING_DELIVERY, check_tx_status_handler and
   sync_pending_transactions both report the one with the largest index. *)
C9_NewestMatchWins ==
    /\ (BotReconciled /\ Cardinality(WindowMatches(BotRecipient)) >= 2) =>
          /\ last.outcome = "found"
          /\ last.found[last.uuid].id = SetMax(WindowMatches(BotRecipient))
    /\ SyncReconciled =>
          /\ \A uuid \in DOMAIN last.found :
                Cardinality(WindowMatches(last.found[uuid].recipient)) >= 2 =>
                    last.found[uuid].id = SetMax(WindowMatches(last.found[uuid].recipient))
          /\ \A uuid \in DOMAIN pending_file :
                Cardinality(WindowMatches(
                    Get(pending_file[uuid].data, "recipient", EMPTY))) < 2

\* two matching records in the window, the newer one reported by the bot
C9_Witness ==
    /\ BotReconciled
    /\ last.outcome = "found"
    /\ Cardinality(WindowMatches(BotRecipient)) = 2
    /\ \E i \in WindowMatches(BotRecipient) : i < last.found[last.uuid].id


(* C4 (as claimed): once check_tx_status_handler has created the confirmed
   row of a UUID, every later call with that UUID returns the same on-chain
   ID from the confirmed store, makes no ledger call and changes neither
   store. *)
C4_ConfirmedStaysConfirmed ==
    [][ \A uuid \in DOMAIN linked :
          (last'.op = "check_tx_status" /\ last'.uuid = uuid) =>
             /\ last'.outcome = "confirmed"
             /\ last'.found[uuid].id = linked[uuid]
             /\ calls' = <<>>
             /\ transactions' = transactions
             /\ pending_transactions' = pending_transactions
             /\ pending_file' = pending_file
      ]_vars

(* C10 (as claimed): in every reachable state of the confirmed store no two
   rows share an onChainId and no two rows share a uuid, also when the uuid
   column was added by update_database_schema. *)
C10_IdAndUuidUnique ==
    \A r, q \in transactions :
        (r.id = q.id \/ r.uuid = q.uuid) => r = q


(* C11 (as claimed): the bot never deletes a confirmed row: every row
   (onChainId k, localId u) of the confirmed store is still a row of the store
   after any check_tx_status_handler call, whichever UUID and user it is for. *)
C11_ConfirmedRowKept ==
    [][ last'.op = "check_tx_status" =>
          \A r \in transactions :
              \E q \in transactions' : q.uuid = r.uuid /\ q.id = r.id
      ]_vars

\* both executions were started for UUID u while it was pending, both have
\* ended, and both read the ledger as it is now
RacedOn(u) ==
    \A e \in Execs :
        /\ handlers[e].pc = "done"
        /\ handlers[e].uuid = u
        /\ handlers[e].pending
        /\ handlers[e].total = Len(ledger)

(* C12: when two executions of check_tx_status_handler for the same pending
   UUID are interleaved at their awaits in any order and the ledger holds
   exactly one matching record k, the confirmed store ends with exactly one
   row for the UUID, its onChainId is k, and each execution ends with a reply
   that reports k (found by the scan, or read from the confirmed store). *)
C12_ConcurrentChecksOneRow ==
    \A u \in 1 .. MaxUUID :
        ( RacedOn(u) /\ Cardinality(WindowMatches(ScanEntry(u).data.recipient)) = 1 ) =>
            LET k == SetMax(WindowMatches(ScanEntry(u).data.recipient))
            IN  /\ {r.id : r \in {q \in transactions : q.uuid = u}} = {k}
                /\ Cardinality({q \in transactions : q.uuid = u}) = 1
                /\ \A e \in Execs :
                      /\ handlers[e].outcome \in {"found", "confirmed"}
                      /\ handlers[e].found[u].id = k

\* both executions had passed query.answer() before either went on: one found
\* the record by its scan, the other read the row just stored
C12_Witness ==
    /\ RacedOn(1)
    /\ handlers["e1"].outcome = "found"
    /\ handlers["e2"].outcome = "confirmed"
    /\ Cardinality(WindowMatches(ScanEntry(1).data.recipient)) = 1

(* C13: the pending file has no guard against a second writer: every save of
   the bot replaces the file by the bot's in-memory map, whatever another
   writer has stored there since the bot loaded it; so there is an
   interleaving with sync_pending_transactions after which an entry that the
   script removed from the file is back in it. *)
C13_BotSaveOverwritesFile ==
    [][ (last'.op = "check_tx_status" /\ last'.outcome = "found") =>
            pending_file' = pending_transactions'
      ]_vars

\* the sync script linked a UUID and removed it from the file; a later save of
\* the bot, made for another UUID, has written it back
C13_Witness ==
    /\ last.op = "check_tx_status"
    /\ last.outcome = "found"
    /\ \E u \in DOMAIN pending_file :
          /\ u # last.uuid
          /\ u \notin DOMAIN linked
          /\ \E r \in transactions : r.uuid = u

(* C14 (as claimed): in check_tx_status_handler a lookup that fails for an
   index i of the lookback window does not end the scan: a record at a lower
   index of the window that has the recipient and state AWAITING_DELIVERY,
   and whose own lookup succeeds, is still found. *)
C14_FailedLookupSkipped ==
    BotReconciled =>
        \A j \in WindowMatches(BotRecipient) :
            ( /\ j \notin faults.lookups
              /\ \E i \in SpecWindow(Len(ledger)) : i > j /\ i \in faults.lookups )
            => /\ last.outcome = "found"
               /\ last.found[last.uuid].id >= j

(* C15: when get_transaction_count fails during check_tx_status_handler for a
   pending UUID without a confirmed row, the handler replies with the error
   text, which is not the 'not yet found' text, makes no lookup and leaves the
   pending map, the pending file and the confirmed store as they were. *)
C15_CountFailureIsError ==
    [][ \A uuid \in DOMAIN pending_transactions :
          ( /\ last'.op = "check_tx_status"
            /\ last'.uuid = uuid
            /\ db_get_transaction_by_uuid(uuid) = {}
            /\ faults.count )
          => /\ last'.outcome = "error"
             /\ calls' = <<>>
             /\ pending_transactions' = pending_transactions
             /\ pending_file' = pending_file
             /\ transactions' = transactions
      ]_vars

\* the error was reported for a UUID whose record is on the ledger, and the
\* UUID is still pending
C15_Witness ==
    /\ last.op = "check_tx_status"
    /\ last.outcome = "error"
    /\ faults.count
    /\ last.uuid \in DOMAIN pending_transactions
    /\ \E i \in 0 .. (Len(ledger) - 1) :
          IsMatch(i, pending_transactions[last.uuid].data.recipient)

\* an address that does not start with 'T' or is not 34 characters long
Malformed(address) == address.first # "T" \/ address.len # ADDR_LEN

(* C16: a malformed recipient address entered while the user's flow state is
   waiting_recipient is rejected and consumes nothing: the user's flow state
   (waiting_recipient, the transaction UUID, the data), the pending map and
   the pending file are what they were. *)
C16_MalformedAddressKeepsState ==
    [][ \A user_id \in DOMAIN user_states :
          ( /\ user_states[user_id].state = "waiting_recipient"
            /\ last'.op = "recipient_input"
            /\ last'.user = user_id
            /\ Malformed(last'.input) )
          => /\ last'.outcome = "invalid_address"
             /\ user_states' = user_states
             /\ pending_transactions' = pending_transactions
             /\ pending_file' = pending_file
      ]_vars

\* a 33-character address was rejected and the user is still asked for the
\* recipient of the same UUID
C16_Witness ==
    /\ last.op = "recipient_input"
    /\ last.outcome = "invalid_address"
    /\ last.input = AddrShort
    /\ last.user \in DOMAIN user_states
    /\ user_states[last.user].state = "waiting_recipient"
    /\ user_states[last.user].transaction_id = last.uuid
    /\ last.uuid \in DOMAIN pending_transactions

\* an amount text the advanced bot's amount step accepts as a number
AdvValidAmountText(text) ==
    text.kind = "num" /\ text.val > ADV_MIN_AMOUNT /\ text.val <= ADV_MAX_AMOUNT

(* C17 (as claimed): an amount text that is not a number, or is a number
   outside the range of the handler, is rejected at the amount step of either
   bot and the flow remains at that step: the user's flow state with its
   recipient and UUID is unchanged, no payload is emitted and no pending entry
   is created or changed. *)
C17_BadAmountKeepsStep ==
    [][ /\ \A user_id \in DOMAIN user_states :
              ( /\ user_states[user_id].state = "waiting_amount"
                /\ last'.op = "amount_input"
                /\ last'.user = user_id
                /\ ~ ValidAmountText(last'.input) )
              => /\ last'.outcome = "invalid_amount"
                 /\ user_states' = user_states
                 /\ pending_transactions' = pending_transactions
                 /\ pending_file' = pending_file
        /\ \A user_id \in DOMAIN adv_user_data :
              ( /\ adv_user_data[user_id].step = "amount"
                /\ last'.op = "adv_step"
                /\ last'.user = user_id
                /\ ~ AdvValidAmountText(last'.input) )
              => /\ last'.outcome = "invalid_amount"
                 /\ adv_user_data' = adv_user_data
                 /\ adv_pending' = adv_pending
                 /\ adv_pending_file' = adv_pending_file
      ]_vars


\* the last operation was a confirm-delivery request of either bot
ConfirmRequested == last.op \in {"transaction_id_input", "adv_confirm_delivery"}

\* the ledger, asked now, returns a record for t in state AWAITING_DELIVERY
LookupAwaitsDelivery(t) ==
    /\ t \in 0 .. (Len(ledger) - 1)
    /\ t \notin faults.lookups
    /\ ledger[t + 1].state = "AWAITING_DELIVERY"

\* C18: a confirm-delivery signing payload for transaction id t is emitted only
\* when the ledger lookup made in the same handler was for t and returned a
\* record in state AWAITING_DELIVERY; when the handler looked t up and t does
\* not exist, the lookup failed or the state is another one, no payload is
\* emitted, the user is told why and the conversation state stays.
C18_PayloadOnlyAfterPreflight ==
    ConfirmRequested =>
      /\ last.outcome = "payload" =>
            /\ Len(calls) = 1
            /\ \A u \in DOMAIN last.found :
                  /\ last.found[u].id = calls[1]
                  /\ LookupAwaitsDelivery(last.found[u].id)
            /\ DOMAIN last.found # {}
      /\ (Len(calls) = 1 /\ ~ LookupAwaitsDelivery(calls[1])) =>
            /\ last.outcome \in {"tx_not_found", "wrong_state", "error"}
            /\ last.found = NoFound
            /\ last.op = "transaction_id_input" =>
                  /\ last.user \in DOMAIN user_states
                  /\ user_states[last.user].state = "waiting_transaction_id"

\* a payload was emitted for a deal named by its UUID while another deal is
\* complete and the lookup of some deal fails
C18_Witness ==
    /\ last.op = "transaction_id_input"
    /\ last.outcome = "payload"
    /\ last.input.kind = "uuid"
    /\ \E i \in 1 .. Len(ledger) : ledger[i].state = "COMPLETE"
    /\ faults.lookups # {}

\* C19: a pending entry is created when the amount-entry step finishes: every
\* entry of the pending store carries an accepted amount, so a flow that was
\* started and then abandoned or cancelled has no entry under its UUID.
C19_PendingOnlyAfterAmount ==
    \A transaction_id \in DOMAIN pending_transactions :
        /\ pending_transactions[transaction_id].status # "creating"
        /\ "amount" \in DOMAIN pending_transactions[transaction_id].data

\* what the scan of check_tx_status_handler finds for a pending entry in the
\* ledger as it stands
BotReconcile(entry) ==
    BotScan(Len(ledger) - 1, BotScanStop(Len(ledger)),
            Get(entry.data, "recipient", EMPTY), <<>>).found

\* what the scan of sync_pending_transactions finds for the same entry
SyncReconcile(entry) ==
    SyncScan(Len(ledger) - 1, Len(ledger), Get(entry.data, "recipient", EMPTY), <<>>).found

\* C20: the reconciliation of sync_pending_transactions and the reconciliation
\* of check_tx_status_handler are the same function of their inputs: for every
\* pending entry and the ledger as it stands (all lookups succeeding) both find
\* the same on-chain ID or both find none.
C20_SameReconciliation ==
    faults = NoFaults =>
      \A uuid \in DOMAIN pending_transactions :
        BotReconcile(pending_transactions[uuid]) = SyncReconcile(pending_transactions[uuid])

\* what the scan of the advanced bot's check_pending_transaction_status finds
\* for a pending entry in the ledger as it stands
AdvReconcile(entry) ==
    AdvScan(Max(0, Len(ledger) - LOOKBACK), Len(ledger), entry.data, <<>>).found

\* C21: the advanced bot's reconciliation agrees with check_tx_status_handler
\* of the unified bot: for every pending entry and the ledger as it stands
\* (all lookups succeeding) both select the same on-chain ID or both find
\* nothing; the advanced bot selects only records in state AWAITING_DELIVERY.
C21_AdvancedAgreesWithUnified ==
    faults = NoFaults =>
      \A uuid \in DOMAIN adv_pending :
        /\ AdvReconcile(adv_pending[uuid]) = BotReconcile(adv_pending[uuid])
        /\ \A i \in AdvReconcile(adv_pending[uuid]) :
              ledger[i + 1].state = "AWAITING_DELIVERY"

\* the entries of the cleaner's pending file that are more than 24 hours old
OlderThanADay ==
    {tx_uuid \in DOMAIN adv_pending_file :
        clock - adv_pending_file[tx_uuid].created_at > MAX_AGE_HOURS * HOUR}

\* C22: cleanup_pending_transactions removes from the pending store exactly
\* the entries whose age (now minus created_at) is greater than 24 hours and
\* keeps every other entry with its content; when no entry is older than 24
\* hours the file is not rewritten.
C22_CleanupRemovesOldPending ==
    [][(last'.op = "cleanup" /\ last'.outcome = "cleaned") =>
          /\ DOMAIN adv_pending_file' = DOMAIN adv_pending_file \ OlderThanADay
          /\ \A tx_uuid \in DOMAIN adv_pending_file' :
                adv_pending_file'[tx_uuid] = adv_pending_file[tx_uuid]
          /\ OlderThanADay = {} => ~ last'.input.pending_saved
          /\ OlderThanADay # {} => last'.input.pending_saved]_vars

\* the cleaner removed the entry that was a day and a second old and kept the
\* entry that was exactly a day old
C22_Witness ==
    /\ last.op = "cleanup"
    /\ last.outcome = "cleaned"
    /\ last.input.pending_saved
    /\ DOMAIN adv_pending_file = {2}
    /\ clock - adv_pending_file[2].created_at = MAX_AGE_HOURS * HOUR

\* the listing of the ledger yields no valid ID: the count fails or no record
\* of the ledger can be read
NoValidIds ==
    \/ faults.count
    \/ \A tx_id \in 0 .. (Len(ledger) - 1) : tx_id \in faults.lookups

\* C23: DataCleaner.run cancels the whole cleanup when it obtains no valid
\* on-chain IDs: neither users_data, nor the confirmed-transaction table, nor
\* the pending store is modified.
C23_NoValidIdsCancelsCleanup ==
    [][(last'.op = "cleanup" /\ NoValidIds) =>
          /\ last'.outcome = "cancelled"
          /\ users_data_file' = users_data_file
          /\ transactions' = transactions
          /\ adv_pending_file' = adv_pending_file]_vars

\* a run was cancelled on a failing count while a confirmed row, a recorded
\* deal and an entry older than a day were there to be cleaned
C23_Witness ==
    /\ last.op = "cleanup"
    /\ last.outcome = "cancelled"
    /\ faults.count
    /\ transactions # {}
    /\ OlderThanADay # {}
    /\ \E user_id \in DOMAIN users_data_file : "transactions" \in DOMAIN users_data_file[user_id]

\* C24: cleanup_database deletes only rows whose id is not the index of a
\* record existing on the ledger: a row whose on-chain ID k satisfies
\* 0 <= k < transactionCount is never deleted, also when a get_transaction(k)
\* lookup fails during the listing.
C24_ExistingRowsKept ==
    [][last'.op = "cleanup" =>
          \A r \in transactions :
             r.id \in 0 .. (Len(ledger) - 1) => r \in transactions']_vars

\* C25: in create_transaction_with_auto_approve the escrow createTransaction
\* is broadcast only after the USDT approve was broadcast and its confirmation
\* was observed by wait_for_transaction within the timeout; if approve fails
\* the result is (None, None), if approve is not confirmed in time the result
\* is (approve_txid, None), and in both cases no create is broadcast.
C25_CreateOnlyAfterConfirmedApprove ==
    /\ \A i \in 1 .. Len(client.broadcasts) :
          client.broadcasts[i] = "create" =>
             /\ i = 2
             /\ client.broadcasts[1] = "approve"
             /\ client.seen_ret
             /\ client.polls < WAIT_TIMEOUT
    /\ (client.pc = "done" /\ client.approve_txid = {}) =>
          /\ client.result = {Result({}, {})}
          /\ client.broadcasts = <<>>
    /\ (client.pc = "done" /\ client.approve_txid # {} /\ ~ client.seen_ret) =>
          /\ client.result = {Result(client.approve_txid, {})}
          /\ client.broadcasts = <<"approve">>

\* the create was broadcast after the approve was confirmed at the last poll
\* the timeout allows
C25_Witness ==
    /\ client.pc = "done"
    /\ client.broadcasts = <<"approve", "create">>
    /\ client.polls = WAIT_TIMEOUT - 1
    /\ client.result = {Result({"approve_txid"}, {"create_txid"})}

\* the blockchain ID a map from UUID to ID holds for uuid after the calls ops:
\* that of the last add_mapping(uuid, id) not followed by remove_mapping(uuid)
RECURSIVE Mapped(_, _)
Mapped(ops, uuid) ==
    IF ops = <<>> THEN {}
    ELSE LET call == ops[Len(ops)] IN
         IF call.uuid # uuid THEN Mapped(SubSeq(ops, 1, Len(ops) - 1), uuid)
         ELSE IF call.op = "add" THEN {call.id} ELSE {}

\* C26: UUIDMapping behaves as a map from UUID to blockchain ID: after any
\* sequence of add_mapping and remove_mapping calls by a single caller,
\* get_blockchain_id(u) returns the ID of the last add_mapping(u, id) that was
\* not followed by remove_mapping(u), and None otherwise; remove_mapping of an
\* absent UUID changes nothing.
C26_MappingIsAMap ==
    [][/\ last'.op = "get_blockchain_id" =>
            {last'.found[u].id : u \in DOMAIN last'.found} = Mapped(mapping_ops, last'.uuid)
       /\ (last'.op = "remove_mapping" /\ Mapped(mapping_ops, last'.uuid) = {}) =>
            mapping_file' = mapping_file]_vars

\* a UUID was added, removed and added again with another ID, and the lookup
\* returned the second ID
C26_Witness ==
    /\ last.op = "get_blockchain_id"
    /\ last.outcome = "id"
    /\ Len(mapping_ops) = 3
    /\ mapping_ops[1] = [op |-> "add", uuid |-> last.uuid, id |-> 1]
    /\ mapping_ops[2] = [op |-> "remove", uuid |-> last.uuid, id |-> 0]
    /\ mapping_ops[3] = [op |-> "add", uuid |-> last.uuid, id |-> 2]
    /\ last.found[last.uuid].id = 2

\* C27: in check_tx_status_handler the pending entry of a UUID is removed
\* only when the confirmed row for that UUID has actually been stored: a UUID
\* that the handler takes out of the pending store is the uuid of a row of the
\* table afterwards.
C27_PendingRemovedOnlyWhenStored ==
    [][\A tx_uuid \in DOMAIN pending_transactions :
          (last'.op = "check_tx_status" /\ tx_uuid \notin DOMAIN pending_transactions') =>
             \E r \in transactions' : r.uuid = tx_uuid]_vars

\* C28: two distinct pending UUIDs are never both reported as matched to the
\* same on-chain ID: a reconciliation (check_tx_status_handler or one run of
\* sync_pending_transactions) does not select for a UUID a ledger record that
\* is the id of a confirmed row with another uuid, nor the same record for two
\* UUIDs of one run.
C28_OneUuidPerLedgerRecord ==
    [][(last'.op \in {"check_tx_status", "sync"} /\ last'.outcome \in {"found", "synced"}) =>
          \A tx_uuid \in DOMAIN last'.found :
             /\ \A r \in transactions :
                   r.uuid # tx_uuid => r.id # last'.found[tx_uuid].id
             /\ \A other \in DOMAIN last'.found :
                   other # tx_uuid => last'.found[other].id # last'.found[tx_uuid].id]_vars

\* C29: in the unified bot every pending entry with status 'creating' belongs
\* to a flow in progress: some user's flow state is waiting_recipient or
\* waiting_amount with that transaction UUID.
C29_CreatingHasFlow ==
    \A transaction_id \in DOMAIN pending_transactions :
       pending_transactions[transaction_id].status = "creating" =>
          \E user_id \in DOMAIN user_states :
             /\ user_states[user_id].state \in {"waiting_recipient", "waiting_amount"}
             /\ user_states[user_id].transaction_id = transaction_id

\* C30: the confirmed row created for a UUID is attributed to the user who
\* initiated the pending escrow: the row's user_id equals the user_id stored
\* in the pending entry, whichever user triggered the check and whether the
\* bot or sync_pending_transactions performed the reconciliation.
C30_RowBelongsToInitiator ==
    [][(last'.op \in {"check_tx_status", "sync"} /\ last'.outcome \in {"found", "synced"}) =>
          \A tx_uuid \in DOMAIN last'.found :
             \A r \in transactions' :
                (r.uuid = tx_uuid /\ tx_uuid \in DOMAIN pending_file) =>
                   r.user_id = pending_file[tx_uuid].user_id]_vars
====
